---- MODULE Spec2Model ----
(***************************************************************************)
(* Telegram relay of Claude-Code-Remote: the notification channel          *)
(* (src/src/channels/telegram/telegram.js, class TelegramChannel) creates  *)
(* token-addressed session files and sends the notification; the webhook   *)
(* handler (src/unnamed/part_000, class TelegramWebhookHandler) parses     *)
(* inbound messages and callback queries, resolves the token to a session, *)
(* checks its expiry and injects the command.                              *)
(*                                                                         *)
(* Strings are sequences of one-character strings, so that the regular     *)
(* expressions, trim(), toUpperCase() and split(':') are computed.         *)
(***************************************************************************)
EXTENDS Integers, Sequences, FiniteSets, TLC

\* ------------------------------------------------------------------ text

Upper == <<"A", "B", "C", "D", "E", "F", "G", "H", "I", "J", "K", "L", "M", "N", "O", "P", "Q", "R", "S", "T", "U", "V", "W", "X", "Y", "Z">>

Lower == <<"a", "b", "c", "d", "e", "f", "g", "h", "i", "j", "k", "l", "m", "n", "o", "p", "q", "r", "s", "t", "u", "v", "w", "x", "y", "z">>

Digits == <<"0", "1", "2", "3", "4", "5", "6", "7", "8", "9">>

Range(s) == {s[i] : i \in 1..Len(s)}

\* \s of the regular expressions and the characters trim() strips
IsSpace(c) == c \in {" ", "\t", "\n"}

\* the line terminators that `.` does not match
IsLineTerminator(c) == c = "\n"

\* [A-Z0-9], without and with the i flag
IsTokenChar(c, ignoreCase) ==
    \/ c \in Range(Upper)
    \/ c \in Range(Digits)
    \/ ignoreCase /\ c \in Range(Lower)

toUpperCaseChar(c) ==
    IF c \in Range(Lower)
    THEN Upper[CHOOSE i \in 1..Len(Lower) : Lower[i] = c]
    ELSE c

\* String.prototype.toUpperCase
toUpperCase(s) == [i \in 1..Len(s) |-> toUpperCaseChar(s[i])]

\* the text from position p to the end
From(s, p) == SubSeq(s, p, Len(s))

\* String.prototype.trim
trim(s) ==
    LET keep == {i \in 1..Len(s) : ~IsSpace(s[i])}
    IN  IF keep = {} THEN <<>>
        ELSE SubSeq(s, CHOOSE i \in keep : \A j \in keep : i <= j,
                       CHOOSE i \in keep : \A j \in keep : j <= i)

\* String.prototype.startsWith
startsWith(s, prefix) ==
    /\ Len(s) >= Len(prefix)
    /\ SubSeq(s, 1, Len(prefix)) = prefix

\* length of the run of whitespace that starts at position p
RECURSIVE SpaceRun(_, _)
SpaceRun(s, p) ==
    IF p <= Len(s) /\ IsSpace(s[p]) THEN 1 + SpaceRun(s, p + 1) ELSE 0

\* String.prototype.split(':')
RECURSIVE split(_)
split(s) ==
    LET colons == {i \in 1..Len(s) : s[i] = ":"}
    IN  IF colons = {} THEN <<s>>
        ELSE LET c == CHOOSE i \in colons : \A j \in colons : i <= j
             IN  <<SubSeq(s, 1, c - 1)>> \o split(From(s, c + 1))

\* Array.prototype.join(':')
RECURSIVE join(_)
join(parts) ==
    IF parts = <<>> THEN <<>>
    ELSE IF Len(parts) = 1 THEN parts[1]
    ELSE parts[1] \o <<":">> \o join(Tail(parts))

\* the 8 of [A-Z0-9]{8}
TokenLen == 8

NoMatch == [matched |-> FALSE, token |-> <<>>, command |-> <<>>]

\* ([A-Z0-9]{8})\s+(.+)$ matched at position p: eight token characters, a
\* greedy run of whitespace that gives back what (.+)$ needs, and the rest of
\* the text, which `.` accepts only without a line terminator
TokenThenCommand(s, p, ignoreCase) ==
    LET q    == p + TokenLen
        run  == SpaceRun(s, q)
        fits == {j \in 1..run :
                    /\ q + j <= Len(s)
                    /\ \A i \in (q + j)..Len(s) : ~IsLineTerminator(s[i])}
    IN  IF /\ Len(s) >= q - 1
           /\ \A i \in p..(q - 1) : IsTokenChar(s[i], ignoreCase)
           /\ fits # {}
        THEN LET j == CHOOSE x \in fits : \A y \in fits : y <= x
             IN  [matched |-> TRUE, token |-> SubSeq(s, p, q - 1),
                  command |-> From(s, q + j)]
        ELSE NoMatch

SlashCmd == <<"/", "c", "m", "d">>

\* ^\/cmd with the i flag
StartsWithSlashCmd(s) ==
    /\ Len(s) >= Len(SlashCmd)
    /\ \A i \in 1..Len(SlashCmd) : toUpperCaseChar(s[i]) = toUpperCaseChar(SlashCmd[i])

\* /^\/cmd([A-Z0-9]{8})\s+(.+)$/i
newFormatMatch(s) ==
    IF StartsWithSlashCmd(s)
    THEN TokenThenCommand(s, Len(SlashCmd) + 1, TRUE)
    ELSE NoMatch

\* /^\/cmd\s+([A-Z0-9]{8})\s+(.+)$/i
oldFormatMatch(s) ==
    IF StartsWithSlashCmd(s) /\ SpaceRun(s, Len(SlashCmd) + 1) >= 1
    THEN TokenThenCommand(s, Len(SlashCmd) + 1 + SpaceRun(s, Len(SlashCmd) + 1), TRUE)
    ELSE NoMatch

\* /^([A-Z0-9]{8})\s+(.+)$/
directMatch(s) == TokenThenCommand(s, 1, FALSE)

\* ------------------------------------------------------------ the state

VARIABLES
    config,       \* this.config of both classes: botToken, chatId, groupId, whitelist
    clock,        \* Date.now(), in milliseconds
    ticks,        \* how often the clock has advanced
    files,        \* the session files <sessionId>.json of sessionsDir
    persist,      \* the records of the PersistentSessionManager
    chatCurrent,  \* its current session of each chat
    notif,        \* the calls of TelegramChannel._sendImpl
    ev            \* the webhook requests of TelegramWebhookHandler._handleWebhook

vars == <<config, clock, ticks, files, persist, chatCurrent, notif, ev>>

\* concurrently handled webhook requests
MaxEvents == 2

\* calls of _sendImpl
MaxNotifs == 2

\* advances of the clock
MaxTicks == 2

\* 24 * 60 * 60 * 1000, the lifetime _createSession stamps
TTL_MS == 24 * 60 * 60 * 1000

\* "Tokens persist for 7 days" of the help message, in seconds
ADVERTISED_TTL == 7 * 24 * 60 * 60

\* Math.floor(Date.now() / 1000)
nowSec == clock \div 1000

TokA == <<"A", "B", "C", "D", "1", "2", "3", "4">>

TokALower == <<"a", "b", "c", "d", "1", "2", "3", "4">>

TokB == <<"W", "X", "Y", "Z", "9", "8", "7", "6">>

TokBLower == <<"w", "x", "y", "z", "9", "8", "7", "6">>

\* the tokens _generateToken draws in the model
GenTokens == {TokA}

\* what `tmux display-message -p "#S"` yields: a session name, or null
TmuxResults == {"", "main"}

ChatIds == {"c1", "c9"}

\* the amounts by which the clock advances between two steps
TickSteps == {999, TTL_MS}

\* the milliseconds that pass between the two reads of Date.now() in
\* _createSession
ReadDrift == {0, 1}

\* ------------------------------------------------- TelegramChannel (telegram.js)

\* _validateConfig
_validateConfig ==
    IF ~config.botToken THEN FALSE
    ELSE IF config.chatId = "" /\ config.groupId = "" THEN FALSE
    ELSE TRUE

\* the record _createSession writes; now1 and now2 are its reads of Date.now()
SessionRecord(sessionId, token, tmuxSession, now1, now2) ==
    [id          |-> sessionId,
     token       |-> token,
     createdAt   |-> now1 \div 1000,
     expiresAt   |-> (now2 + TTL_MS) \div 1000,
     tmuxSession |-> IF tmuxSession # "" THEN tmuxSession ELSE "default"]

\* the recipient of the notification: the group if configured, else the chat
Recipient == IF config.groupId # "" THEN config.groupId ELSE config.chatId

\* fs.existsSync + fs.unlinkSync of <sessionId>.json (both classes)
_removeSession(dir, sessionId) == {f \in dir : f.id # sessionId}

IdleNotif ==
    [pc |-> "idle", id |-> 0, token |-> <<>>, delivered |-> FALSE,
     result |-> FALSE, tmux |-> "", metadata |-> "none"]

\* notification.metadata as _sendImpl receives it: undefined, an object
\* without tmuxSession, or an object whose tmuxSession is "meta"
Metadatas == {"none", "plain", "named"}

\* notification.metadata?.tmuxSession after lines 113-121 of _sendImpl, which
\* fill in the metadata only when there was none and tmux reported a session;
\* "" stands for undefined
MetadataTmuxSession(metadata, tmuxSession) ==
    IF tmuxSession # "" /\ metadata = "none" THEN tmuxSession
    ELSE IF metadata = "named" THEN "meta"
    ELSE ""

\* a _sendImpl that calls axios.post before it has written the session file
SendImplPostingFirst(n, tmuxResults, drifts, metadatas) ==
    /\ notif[n].pc = "idle"
    /\ _validateConfig
    /\ \E token \in GenTokens, tmuxSession \in tmuxResults, metadata \in metadatas :
         notif' = [notif EXCEPT ![n] =
             [pc |-> "posting", id |-> n, token |-> token,
              delivered |-> FALSE, result |-> FALSE,
              tmux |-> tmuxSession, metadata |-> metadata]]
    /\ UNCHANGED <<config, clock, ticks, files, persist, chatCurrent, ev>>

\* _sendImpl up to the call of axios.post: validates the configuration, draws
\* the session id and the token, reads the tmux session, writes the session file
SendImpl(n, tmuxResults, drifts, metadatas) ==
    /\ notif[n].pc = "idle"
    /\ IF ~_validateConfig
       THEN /\ notif' = [notif EXCEPT ![n].pc = "threw"]
            /\ UNCHANGED <<clock, files>>
       ELSE \E token \in GenTokens, tmuxSession \in tmuxResults, d \in drifts,
               metadata \in metadatas :
              /\ files' = files \cup
                     {SessionRecord(n, token,
                                    MetadataTmuxSession(metadata, tmuxSession),
                                    clock, clock + d)}
              /\ clock' = clock + d
              /\ notif' = [notif EXCEPT ![n] =
                     [pc |-> "posting", id |-> n, token |-> token,
                      delivered |-> FALSE, result |-> FALSE,
                      tmux |-> tmuxSession, metadata |-> metadata]]
    /\ UNCHANGED <<config, ticks, persist, chatCurrent, ev>>

\* _sendImpl up to the middle of fs.writeFileSync in _createSession: the file
\* <sessionId>.json exists and holds a prefix of the record
CreateSessionOpen(n, tmuxResults) ==
    /\ notif[n].pc = "idle"
    /\ _validateConfig
    /\ \E token \in GenTokens, tmuxSession \in tmuxResults :
         /\ files' = files \cup {SessionRecord(n, token, tmuxSession, clock, clock)}
         /\ notif' = [notif EXCEPT ![n] =
                [pc |-> "writing", id |-> n, token |-> token,
                 delivered |-> FALSE, result |-> FALSE,
                 tmux |-> tmuxSession, metadata |-> "none"]]
    /\ UNCHANGED <<config, clock, ticks, persist, chatCurrent, ev>>

\* fs.writeFileSync returns: the file holds the whole record, and _sendImpl
\* goes on to the call of axios.post
CreateSessionWritten(n) ==
    /\ notif[n].pc = "writing"
    /\ notif' = [notif EXCEPT ![n].pc = "posting"]
    /\ UNCHANGED <<config, clock, ticks, files, persist, chatCurrent, ev>>

\* the file f is being written: a reader gets a prefix of its content
Partial(f) == notif[f.id].pc = "writing"

\* a _sendImpl whose catch block leaves the session file behind
SendImplResponseNoCleanup(n) ==
    /\ notif[n].pc = "posting"
    /\ \E delivered \in BOOLEAN :
         notif' = [notif EXCEPT ![n].pc = "done", ![n].delivered = delivered,
                                ![n].result = delivered]
    /\ UNCHANGED <<config, clock, ticks, files, persist, chatCurrent, ev>>

\* the outcomes of axios.post: answered, refused or unreachable, and delivered
\* with the answer lost
PostOutcomes == {"ok", "refused", "lost"}

\* _sendImpl from the answer of axios.post on: returns true, or removes the
\* session file in the catch block and returns false
SendImplResponse(n) ==
    /\ notif[n].pc = "posting"
    /\ \E outcome \in PostOutcomes :
         IF outcome = "ok"
         THEN /\ notif' = [notif EXCEPT ![n].pc = "done", ![n].delivered = TRUE,
                                        ![n].result = TRUE]
              /\ UNCHANGED files
         ELSE /\ notif' = [notif EXCEPT ![n].pc = "done",
                                        ![n].delivered = (outcome = "lost"),
                                        ![n].result = FALSE]
              /\ files' = _removeSession(files, notif[n].id)
    /\ UNCHANGED <<config, clock, ticks, persist, chatCurrent, ev>>

\* ------------------------------------------ PersistentSessionManager (not in src)

\* getSessionByToken: the record of the token, compared in upper case
getSessionByToken(token) ==
    LET m == {p \in persist : p.token = toUpperCase(token)}
    IN  IF m = {} THEN <<>> ELSE <<CHOOSE p \in m : TRUE>>

\* getCurrentChatSession
getCurrentChatSession(chatId) == chatCurrent[chatId]

\* ------------------------------------- TelegramWebhookHandler (unnamed/part_000)

\* an _isAuthorized that lets the configured chat in beside a whitelist
_isAuthorizedBesideWhitelist(userId, chatId) ==
    \/ chatId \in config.whitelist
    \/ userId \in config.whitelist
    \/ LET configuredChatId ==
               IF config.chatId # "" THEN config.chatId ELSE config.groupId
       IN  configuredChatId # "" /\ chatId = configuredChatId

\* _isAuthorized
_isAuthorized(userId, chatId) ==
    IF chatId \in config.whitelist \/ userId \in config.whitelist THEN TRUE
    ELSE IF config.whitelist = {}
    THEN LET configuredChatId ==
                 IF config.chatId # "" THEN config.chatId ELSE config.groupId
         IN  configuredChatId # "" /\ chatId = configuredChatId
    ELSE FALSE

\* a _findSessionByToken that makes do with the fields a truncated file holds
_findSessionByTokenPartial(token) ==
    LET m == {f \in files : f.token = token}
    IN  IF m = {} THEN {<<>>}
        ELSE {<<[id          |-> f.id,
                 token       |-> f.token,
                 tmuxSession |-> IF Partial(f) THEN "" ELSE f.tmuxSession,
                 expiresAt   |-> IF Partial(f) THEN 0 ELSE f.expiresAt]>> : f \in m}

\* _findSessionByToken: the persistent session converted to the webhook's
\* format, otherwise a session file whose token is equal to the given one (the
\* first one in directory order, which the random file names decide). Of a
\* file that is being written readFileSync returns a prefix: the whole record,
\* or a text at which JSON.parse throws, and the catch block skips the file
_findSessionByToken(token) ==
    LET session == getSessionByToken(token)
    IN  IF session # <<>>
        THEN {<<[id          |-> session[1].sessionId,
                 token       |-> session[1].token,
                 tmuxSession |-> session[1].tmuxSession,
                 expiresAt   |-> session[1].expiresAt]>>}
        ELSE LET m == {f \in files : f.token = token}
             IN  {<<[id          |-> f.id,
                     token       |-> f.token,
                     tmuxSession |-> f.tmuxSession,
                     expiresAt   |-> f.expiresAt]>> : f \in m}
                 \cup (IF \A f \in m : Partial(f) THEN {<<>>} ELSE {})

IdleEvent ==
    [pc |-> "idle", kind |-> "", userId |-> "", chatId |-> "", text |-> <<>>,
     replyToBot |-> FALSE, parsed |-> FALSE, looked |-> 0, token |-> <<>>,
     command |-> <<>>, session |-> <<>>, replies |-> <<>>,
     injected |-> <<>>, removed |-> <<>>, online |-> TRUE, threw |-> FALSE,
     http |-> <<>>]

\* the handler returns and _handleWebhook answers res.status(200).send('OK')
Returning(r) == [r EXCEPT !.pc = "done", !.http = @ \o <<200>>]

\* an exception leaves the handler and the catch block of _handleWebhook
\* answers res.status(500).send('Internal Server Error')
Throwing(r) == [r EXCEPT !.pc = "done", !.threw = TRUE, !.http = @ \o <<500>>]

\* a _sendMessage without its try/catch: the error of a failed axios.post
\* leaves the handler
ReplyingUnguarded(r, what) ==
    IF r.online
    THEN Returning([r EXCEPT !.replies = @ \o <<what>>])
    ELSE Throwing([r EXCEPT !.replies = @ \o <<what>>])

\* the handler sends one message with _sendMessage, which logs a failure of
\* axios.post (the chat is not online) and returns normally, and returns
Replying(r, what) == Returning([r EXCEPT !.replies = @ \o <<what>>])

\* _processCommand up to its first await: the call of _findSessionByToken
\* with `session` as its result
ProcessCommandCall(r, token, command, session) ==
    [r EXCEPT !.pc = "found", !.token = token, !.command = command,
              !.looked = @ + 1, !.session = session]

\* the three formats of _handleMessage, tried in order
ParseCommand(messageText) ==
    LET f1 == newFormatMatch(messageText)
        f2 == oldFormatMatch(messageText)
        f3 == directMatch(messageText)
    IN  IF f1.matched THEN [f1 EXCEPT !.token = toUpperCase(@)]
        ELSE IF f2.matched THEN [f2 EXCEPT !.token = toUpperCase(@)]
        ELSE IF f3.matched THEN [f3 EXCEPT !.token = toUpperCase(@)]
        ELSE NoMatch

SlashStart == <<"/", "s", "t", "a", "r", "t">>

SlashHelp == <<"/", "h", "e", "l", "p">>

\* a reply mode that gives way to a text in one of the command formats
ReplyModeAfterFormats(message) ==
    /\ message.replyToBot
    /\ getCurrentChatSession(message.chatId) # <<>>
    /\ ~ParseCommand(trim(message.text)).matched

\* the test for reply mode of _handleMessage: the message replies to a message
\* of a bot and the chat has a current session
ReplyMode(message) ==
    /\ message.replyToBot
    /\ getCurrentChatSession(message.chatId) # <<>>

\* _handleMessage up to its first await
HandleMessage(e, messages) ==
    /\ ev[e].pc = "idle"
    /\ \E message \in messages :
         LET r == [IdleEvent EXCEPT !.kind = "message", !.userId = message.userId,
                       !.chatId = message.chatId, !.text = message.text,
                       !.replyToBot = message.replyToBot,
                       !.online = message.online]
             messageText == trim(message.text)
             currentSession == getCurrentChatSession(message.chatId)
             parse == ParseCommand(messageText)
         IN  IF messageText = <<>>
             THEN ev' = [ev EXCEPT ![e] = Returning(r)]
             ELSE IF ~_isAuthorized(message.userId, message.chatId)
             THEN ev' = [ev EXCEPT ![e] = Replying(r, "unauthorized")]
             ELSE IF messageText = SlashStart
             THEN ev' = [ev EXCEPT ![e] = Replying(r, "welcome")]
             ELSE IF messageText = SlashHelp
             THEN ev' = [ev EXCEPT ![e] = Replying(r, "help")]
             ELSE IF ReplyMode(message)
             THEN \E session \in _findSessionByToken(currentSession[1].token) :
                    ev' = [ev EXCEPT ![e] = ProcessCommandCall(
                              r, currentSession[1].token, messageText, session)]
             ELSE IF parse.matched
             THEN \E session \in _findSessionByToken(parse.token) :
                    ev' = [ev EXCEPT ![e] = ProcessCommandCall(
                              [r EXCEPT !.parsed = TRUE], parse.token,
                              parse.command, session)]
             ELSE ev' = [ev EXCEPT ![e] =
                            Replying([r EXCEPT !.parsed = TRUE], "usage")]
    /\ UNCHANGED <<config, clock, ticks, files, persist, chatCurrent, notif>>

\* the expiry test of _processCommand
IsExpired(session, now) == session.expiresAt < now

\* a _processCommand that tries a failed injection a second time
InjectCallsRetried(r, ok) ==
    LET call == [command |-> r.command,
                 target  |-> IF r.session[1].tmuxSession # ""
                             THEN r.session[1].tmuxSession ELSE "default"]
    IN  IF ok THEN <<call>> ELSE <<call, call>>

\* the calls of injector.injectCommand that _processCommand makes for the
\* request r, whose injection succeeds (ok) or throws
InjectCalls(r, ok) ==
    <<[command |-> r.command,
       target  |-> IF r.session[1].tmuxSession # ""
                   THEN r.session[1].tmuxSession ELSE "default"]>>

\* a _processCommand that removes the session it has dispatched to
ProcessCommandConsuming(e) ==
    /\ ev[e].pc = "found"
    /\ LET r == ev[e]
       IN  IF r.session = <<>>
           THEN /\ ev' = [ev EXCEPT ![e] = Replying(r, "invalid")]
                /\ UNCHANGED files
           ELSE /\ ev' = [ev EXCEPT ![e] = Replying(
                         [r EXCEPT !.injected = @ \o InjectCalls(r, TRUE)], "sent")]
                /\ files' = _removeSession(files, r.session[1].id)
    /\ UNCHANGED <<config, clock, ticks, persist, chatCurrent, notif>>

\* _processCommand after _findSessionByToken: the invalid-token reply, the
\* expired reply, or the one call of injector.injectCommand with the
\* confirmation (ok) or the failure message of the catch block
ProcessCommand(e) ==
    /\ ev[e].pc = "found"
    /\ LET r == ev[e]
       IN  IF r.session = <<>>
           THEN ev' = [ev EXCEPT ![e] = Replying(r, "invalid")]
           ELSE IF IsExpired(r.session[1], nowSec)
           THEN ev' = [ev EXCEPT ![e] = [r EXCEPT !.pc = "expired",
                           !.replies = @ \o <<"expired">>]]
           ELSE \E ok \in BOOLEAN :
                  ev' = [ev EXCEPT ![e] = Replying(
                      [r EXCEPT !.injected = @ \o InjectCalls(r, ok)],
                      IF ok THEN "sent" ELSE "failed")]
    /\ UNCHANGED <<config, clock, ticks, files, persist, chatCurrent, notif>>

\* _processCommand on the expired path, after the reply: _removeSession
RemoveExpired(e) ==
    /\ ev[e].pc = "expired"
    /\ files' = _removeSession(files, ev[e].session[1].id)
    /\ ev' = [ev EXCEPT ![e] = Returning(
                  [ev[e] EXCEPT !.removed = @ \o <<ev[e].session[1].id>>])]
    /\ UNCHANGED <<config, clock, ticks, persist, chatCurrent, notif>>

PfxPersonal == <<"p", "e", "r", "s", "o", "n", "a", "l", ":">>

PfxGroup == <<"g", "r", "o", "u", "p", ":">>

PfxCopy == <<"c", "o", "p", "y", ":">>

PfxFormat == <<"f", "o", "r", "m", "a", "t", ":">>

PfxQuickcmd == <<"q", "u", "i", "c", "k", "c", "m", "d", ":">>

PfxSession == <<"s", "e", "s", "s", "i", "o", "n", ":">>

\* _handleCallbackQuery up to its first await, _answerCallbackQuery; reading
\* callbackQuery.message.chat.id throws a TypeError when the query has no message
HandleCallbackQuery(e, queries) ==
    /\ ev[e].pc = "idle"
    /\ \E callbackQuery \in queries :
         LET r == [IdleEvent EXCEPT !.kind = "callback",
                       !.userId = callbackQuery.userId,
                       !.text = callbackQuery.data,
                       !.online = callbackQuery.online]
         IN  IF ~callbackQuery.hasMessage
             THEN ev' = [ev EXCEPT ![e] = Throwing(r)]
             ELSE ev' = [ev EXCEPT ![e] = [r EXCEPT !.pc = "answering",
                            !.chatId = callbackQuery.chatId]]
    /\ UNCHANGED <<config, clock, ticks, files, persist, chatCurrent, notif>>

\* a _handleCallbackQuery that resolves the token of every payload
CallbackBranchResolving(e) ==
    /\ ev[e].pc = "answering"
    /\ LET r == ev[e]
           parts == split(r.text)
       IN  \E session \in _findSessionByToken(IF Len(parts) >= 2 THEN parts[2] ELSE <<>>) :
             ev' = [ev EXCEPT ![e] = ProcessCommandCall(
                       [r EXCEPT !.parsed = TRUE],
                       IF Len(parts) >= 2 THEN parts[2] ELSE <<>>,
                       join(SubSeq(parts, 3, Len(parts))), session)]
    /\ UNCHANGED <<config, clock, ticks, files, persist, chatCurrent, notif>>

\* a _handleCallbackQuery that answers an unknown payload with the usage hint
CallbackBranchHinting(e) ==
    /\ ev[e].pc = "answering"
    /\ ev' = [ev EXCEPT ![e] = Replying(ev[e], "usage")]
    /\ UNCHANGED <<config, clock, ticks, files, persist, chatCurrent, notif>>

\* _handleCallbackQuery after _answerCallbackQuery: the branch on the prefix
CallbackBranch(e) ==
    /\ ev[e].pc = "answering"
    /\ LET r == ev[e]
           data == r.text
           parts == split(data)
       IN  IF startsWith(data, PfxPersonal)
           THEN ev' = [ev EXCEPT ![e] = Replying(r, "personal")]
           ELSE IF startsWith(data, PfxGroup)
           THEN ev' = [ev EXCEPT ![e] = Replying(r, "group")]
           ELSE IF startsWith(data, PfxCopy)
           THEN ev' = [ev EXCEPT ![e] = Replying(r, "copy")]
           ELSE IF startsWith(data, PfxFormat)
           THEN ev' = [ev EXCEPT ![e] = Replying(r, "format")]
           ELSE IF startsWith(data, PfxQuickcmd)
           THEN \E session \in _findSessionByToken(parts[2]) :
                  ev' = [ev EXCEPT ![e] = ProcessCommandCall(
                            [r EXCEPT !.parsed = TRUE], parts[2],
                            join(SubSeq(parts, 3, Len(parts))), session)]
           ELSE IF startsWith(data, PfxSession)
           THEN ev' = [ev EXCEPT ![e] = Replying(r, "session")]
           ELSE ev' = [ev EXCEPT ![e] = Returning(r)]
    /\ UNCHANGED <<config, clock, ticks, files, persist, chatCurrent, notif>>

\* time passes
Tick(steps) ==
    /\ ticks < MaxTicks
    /\ \E d \in steps : clock' = clock + d
    /\ ticks' = ticks + 1
    /\ UNCHANGED <<config, files, persist, chatCurrent, notif, ev>>

\* ------------------------------------------------- configurations and inputs

\* TELEGRAM_CHAT_ID set, no group, no whitelist
DefaultConfig == [botToken |-> TRUE, chatId |-> "c1", groupId |-> "", whitelist |-> {}]

\* a session the PersistentSessionManager holds when the webhook starts, and
\* which is the current session of chat c1
StoredSession ==
    [sessionId |-> 900, token |-> TokB, tmuxSession |-> "work",
     expiresAt |-> TTL_MS \div 1000, chatId |-> "c1"]

NoCurrent == [c \in ChatIds |-> <<>>]

\* TELEGRAM_WHITELIST names the user u1
WhitelistConfig ==
    [botToken |-> TRUE, chatId |-> "c1", groupId |-> "", whitelist |-> {"u1"}]

\* the configured operator, and a stranger in a chat of their own
Callers == {[userId |-> "u1", chatId |-> "c1"], [userId |-> "u9", chatId |-> "c9"]}

\* and the stranger in the configured chat
AllCallers == Callers \cup {[userId |-> "u9", chatId |-> "c1"]}

CmdLs == <<"l", "s">>

CmdTwo == <<"d", "o", " ", "X">>

\* a command with a colon
CmdColon == <<"a", ":", "b">>

\* a command of two lines
CmdLines == <<"a", "\n", "b">>

Sp == <<" ">>

Colon == <<":">>

PfxOther == <<"o", "t", "h", "e", "r", ":">>

\* the word quickcmd without its colon
QuickcmdWord == <<"q", "u", "i", "c", "k", "c", "m", "d">>

TxtHello == <<"h", "e", "l", "l", "o">>

\* an update.message; the Telegram API accepts the bot's sendMessage calls
Message(caller, text, replyToBot) ==
    [userId |-> caller.userId, chatId |-> caller.chatId, text |-> text,
     replyToBot |-> replyToBot, online |-> TRUE]

\* an update.callback_query of a button under a message of the bot
Query(caller, data) ==
    [userId |-> caller.userId, chatId |-> caller.chatId, data |-> data,
     hasMessage |-> TRUE, online |-> TRUE]

\* the same update while every axios.post of the handler fails
Offline(update) == [update EXCEPT !.online = FALSE]

\* a callback query without the message field (the message is too old, or the
\* button was sent in inline mode)
WithoutMessage(query) == [query EXCEPT !.hasMessage = FALSE, !.chatId = ""]

\* the messages of the concurrent specification
CoreTexts == {SlashCmd \o TokA \o Sp \o CmdLs}

CoreMessages == {Message(c, t, FALSE) : c \in Callers, t \in CoreTexts}

\* the callback queries of the concurrent specification
CoreData == {PfxQuickcmd \o TokA \o Colon \o CmdLs}

CoreQueries == {Query(c, d) : c \in Callers, d \in CoreData}

\* the three text formats of a command
AttachedFormat(token, command) == SlashCmd \o token \o Sp \o command

SpacedFormat(token, command) == SlashCmd \o Sp \o token \o Sp \o command

BareFormat(token, command) == token \o Sp \o command

\* the payload of a quick command button
QuickcmdData(token, command) == PfxQuickcmd \o token \o Colon \o command

\* tokens as the operator types them: TokA names a session file and TokB the
\* stored session, each also in lower case
TypedTokens == {TokA, TokALower, TokB, TokBLower}

TypedCommands == {CmdLs, CmdTwo, CmdColon}

FormatTexts ==
    UNION {{AttachedFormat(t, c), SpacedFormat(t, c), BareFormat(t, c)} :
              t \in TypedTokens, c \in TypedCommands}

\* texts that are no command: bot commands, free text, no text, padded text,
\* a token without a command
OtherTexts ==
    {SlashStart, SlashHelp, TxtHello, <<>>, Sp \o SlashHelp \o Sp,
     SlashCmd \o TokA, Sp \o AttachedFormat(TokA, CmdLs) \o <<"\n">>}

\* the three formats with a command of two lines
MultiLineTexts ==
    {AttachedFormat(TokA, CmdLines), SpacedFormat(TokA, CmdLines),
     BareFormat(TokA, CmdLines)}

OnlineMessages ==
    {Message(c, t, r) : c \in AllCallers,
                        t \in FormatTexts \cup OtherTexts \cup MultiLineTexts,
                        r \in BOOLEAN}

AllMessages == OnlineMessages \cup {Offline(m) : m \in OnlineMessages}

AllData ==
    {QuickcmdData(t, c) : t \in TypedTokens, c \in TypedCommands}
    \cup {p \o TokA : p \in {PfxPersonal, PfxGroup, PfxCopy, PfxFormat,
                              PfxSession, PfxOther}}
    \cup {PfxQuickcmd \o TokA, QuickcmdData(TokA, CmdLines)}
    \cup {QuickcmdWord \o TokA}

OnlineQueries == {Query(c, d) : c \in AllCallers, d \in AllData}

AllQueries ==
    OnlineQueries \cup {Offline(q) : q \in OnlineQueries}
                  \cup {WithoutMessage(q) : q \in OnlineQueries}

\* ------------------------------------------------------ the specifications

\* the session file that _sendImpl wrote at clock 0 inside tmux session main
FirstSession == SessionRecord(1, TokA, "main", 0, 0)

\* _sendImpl number 1 has delivered the notification of FirstSession
FirstNotif ==
    [pc |-> "done", id |-> 1, token |-> TokA, delivered |-> TRUE, result |-> TRUE,
     tmux |-> "main", metadata |-> "none"]

InitCommon(configs) ==
    /\ config \in configs
    /\ clock = 0
    /\ ticks = 0
    /\ persist = {StoredSession}
    /\ chatCurrent = [NoCurrent EXCEPT !["c1"] = <<StoredSession>>]
    /\ ev = [e \in 1..MaxEvents |-> IdleEvent]

\* the webhook after one notification has been delivered
InitNotified(configs) ==
    /\ InitCommon(configs)
    /\ files = {FirstSession}
    /\ notif = [n \in 1..MaxNotifs |-> IF n = 1 THEN FirstNotif ELSE IdleNotif]

\* the webhook and the channel before any notification
InitFresh ==
    /\ InitCommon({DefaultConfig})
    /\ files = {}
    /\ notif = [n \in 1..MaxNotifs |-> IdleNotif]

\* the steps of the webhook request in slot e
Request(e, messages, queries) ==
    \/ HandleMessage(e, messages)
    \/ HandleCallbackQuery(e, queries)
    \/ CallbackBranch(e)
    \/ ProcessCommand(e)
    \/ RemoveExpired(e)

\* the webhook handles MaxEvents requests concurrently while time passes
Next ==
    \/ \E e \in 1..MaxEvents : Request(e, CoreMessages, CoreQueries)
    \/ Tick({TTL_MS})

Init == InitNotified({DefaultConfig})

Spec == Init /\ [][Next]_vars

\* the operator replies to a message of the bot
ReplyMessages == {Message(c, CmdLs, TRUE) : c \in Callers}

\* the channel sends MaxNotifs notifications while the webhook handles a
\* request and time passes
NextChannel ==
    \/ \E n \in 1..MaxNotifs : SendImpl(n, TmuxResults, {0}, {"none"})
    \/ \E n \in 1..MaxNotifs : SendImplResponse(n)
    \/ Request(1, CoreMessages \cup ReplyMessages, CoreQueries)
    \/ Tick({TTL_MS})

InitChannel == InitFresh

SpecChannel == InitChannel /\ [][NextChannel]_vars

\* the channel creates sessions at any millisecond, for notifications with
\* and without metadata
NextCreate ==
    \/ \E n \in 1..MaxNotifs : SendImpl(n, TmuxResults, ReadDrift, Metadatas)
    \/ Tick(TickSteps)

InitCreate == InitFresh

SpecCreate == InitCreate /\ [][NextCreate]_vars

\* the configurations of the authorization: TELEGRAM_CHAT_ID unset, a chat or
\* the private chat of user u1; TELEGRAM_GROUP_ID unset or set; any whitelist
\* of the user u1 and the chat c9
AuthConfigs ==
    {[botToken |-> TRUE, chatId |-> c, groupId |-> g, whitelist |-> w] :
        c \in {"", "c1", "u1"}, g \in {"", "c9"}, w \in SUBSET {"u1", "c9"}}

\* each user in each chat
AuthCallers == {[userId |-> u, chatId |-> c] : u \in {"u1", "u9"}, c \in ChatIds}

AuthMessages ==
    {Message(c, t, FALSE) : c \in AuthCallers, t \in CoreTexts \cup {SlashStart}}

AuthQueries == {Query(c, d) : c \in AuthCallers, d \in CoreData}

\* the webhook handles one request under any of the configurations
NextAuth ==
    \/ Request(1, AuthMessages, AuthQueries)
    \/ Tick({TTL_MS})

InitAuth == InitNotified(AuthConfigs)

SpecAuth == InitAuth /\ [][NextAuth]_vars

\* the channel writes session files, one write taking two steps, while the
\* webhook handles a request
NextRace ==
    \/ \E n \in 1..MaxNotifs : CreateSessionOpen(n, TmuxResults)
    \/ \E n \in 1..MaxNotifs : CreateSessionWritten(n)
    \/ Request(1, CoreMessages, CoreQueries)
    \/ Tick({TTL_MS})

InitRace == InitFresh

SpecRace == InitRace /\ [][NextRace]_vars

\* the webhook handles one request, of any of the inputs, while time passes
NextParse ==
    \/ Request(1, AllMessages, AllQueries)
    \/ Tick({TTL_MS})

InitParse == InitNotified({DefaultConfig, WhitelistConfig})

SpecParse == InitParse /\ [][NextParse]_vars

\* ------------------------------------------------------------- the claims

Slots == 1..MaxEvents

Authorized(r) == _isAuthorized(r.userId, r.chatId)

\* request e takes the step of _processCommand that follows the lookup
ChecksExpiry(e) == ev[e].pc = "found" /\ ev'[e].pc # "found" /\ ev[e].session # <<>>

\* C1: a request (message or callback query) of a caller whom _isAuthorized
\* rejects is never parsed, never looks up or removes a session, never injects
\* a command, and is answered with nothing but the rejection message.
C1_UnauthorizedNeverProcessed ==
    \A e \in Slots :
        (ev[e].pc # "idle" /\ ~Authorized(ev[e])) =>
            /\ ~ev[e].parsed
            /\ ev[e].looked = 0
            /\ ev[e].removed = <<>>
            /\ ev[e].injected = <<>>
            /\ Range(ev[e].replies) \subseteq {"unauthorized"}

\* the part of C1 that the code keeps: the gate of _handleMessage
C1_MessageGate ==
    \A e \in Slots :
        (ev[e].kind = "message" /\ ~Authorized(ev[e])) =>
            /\ ~ev[e].parsed
            /\ ev[e].looked = 0
            /\ ev[e].removed = <<>>
            /\ ev[e].injected = <<>>
            /\ Range(ev[e].replies) \subseteq {"unauthorized"}

\* C2: when _processCommand tests a session at a time now >= expiresAt (the
\* boundary now = expiresAt included), it does not call injectCommand, replies
\* with the expired message and goes on to delete the session, whose file is
\* gone when the request is done.
C2_ExpiredNeverDispatched ==
    [][\A e \in Slots :
          /\ (ChecksExpiry(e) /\ nowSec >= ev[e].session[1].expiresAt) =>
                /\ ev'[e].injected = <<>>
                /\ ev'[e].pc = "expired"
                /\ ev'[e].replies = ev[e].replies \o <<"expired">>
          /\ (ev[e].pc = "expired" /\ ev'[e].pc = "done") =>
                /\ ev'[e].removed = <<ev[e].session[1].id>>
                /\ \A f \in files' : f.id # ev[e].session[1].id
      ]_vars

\* what the code does at the boundary: strictly after expiresAt the session is
\* refused and removed, at expiresAt itself it is still dispatched
C2_StrictlyAfter ==
    [][\A e \in Slots :
          /\ (ChecksExpiry(e) /\ nowSec > ev[e].session[1].expiresAt) =>
                ev'[e].injected = <<>> /\ ev'[e].pc = "expired"
          /\ (ChecksExpiry(e) /\ nowSec = ev[e].session[1].expiresAt) =>
                ev'[e].injected # <<>> /\ ev'[e].pc = "done"
      ]_vars

\* C3: once a request has found a session at or after its expiresAt and is
\* done, _findSessionByToken no longer finds a session for that token.
C3_ExpiredGoneAfterLookup ==
    [][\A e \in Slots :
          (/\ ev[e].pc \in {"found", "expired"}
           /\ ev'[e].pc = "done"
           /\ ev[e].session # <<>>
           /\ nowSec >= ev[e].session[1].expiresAt) =>
              (_findSessionByToken(ev[e].token))' = {<<>>}
      ]_vars

\* what the code does outside the boundary: a session found strictly after
\* its expiresAt is gone when the request is done
C3_StrictlyAfter ==
    [][\A e \in Slots :
          (/\ ev[e].pc \in {"found", "expired"}
           /\ ev'[e].pc = "done"
           /\ ev[e].session # <<>>
           /\ ev[e].session[1].id \in {f.id : f \in files}
           /\ nowSec > ev[e].session[1].expiresAt) =>
              (_findSessionByToken(ev[e].token))' = {<<>>}
      ]_vars

\* C4: a request of an authorized caller whose token resolves to a session
\* and whose expiry test happens before expiresAt calls injectCommand exactly
\* once, with the parsed command and the tmux session of the resolved session,
\* and is done with it: no request ever makes a second call, also when the
\* injection fails, whatever the other requests do meanwhile.
C4_DispatchedExactlyOnce ==
    [][\A e \in Slots :
          /\ Len(ev'[e].injected) <= 1
          /\ (/\ ChecksExpiry(e)
              /\ Authorized(ev[e])
              /\ nowSec < ev[e].session[1].expiresAt) =>
                /\ ev'[e].injected =
                       <<[command |-> ev[e].command,
                          target  |-> ev[e].session[1].tmuxSession]>>
                /\ ev'[e].command = CmdLs
                /\ ev'[e].pc = "done"
                /\ ev'[e].replies \in {<<"sent">>, <<"failed">>}
      ]_vars

\* C4 happens: an injection has failed and was not repeated while another
\* request is being handled
C4_Witness ==
    \E e \in Slots, f \in Slots :
        /\ e # f
        /\ ev[e].pc = "done"
        /\ Authorized(ev[e])
        /\ ev[e].injected = <<[command |-> CmdLs, target |-> "main"]>>
        /\ ev[e].replies = <<"failed">>
        /\ ev[f].pc \in {"answering", "found"}

\* C5: the step of _processCommand that dispatches a command, whether the
\* injection succeeds or fails, leaves the session files and the stored
\* sessions as they are, and the token still resolves to the same record.
C5_DispatchKeepsSession ==
    [][\A e \in Slots :
          (ChecksExpiry(e) /\ ev'[e].injected # <<>>) =>
              /\ files' = files
              /\ persist' = persist
              /\ chatCurrent' = chatCurrent
              /\ (_findSessionByToken(ev[e].token))' = {ev[e].session}
      ]_vars

\* C5 happens: two requests have been dispatched with the same token, the
\* first injection having failed, and the session file is still there
C5_Witness ==
    \E e \in Slots, f \in Slots :
        /\ e # f
        /\ ev[e].pc = "done" /\ ev[f].pc = "done"
        /\ ev[e].replies = <<"failed">> /\ ev[f].replies = <<"sent">>
        /\ ev[e].token = ev[f].token
        /\ ev[e].injected # <<>> /\ ev[f].injected # <<>>
        /\ \E s \in files : s.token = ev[e].token

\* the request carries something to handle: a callback query, or a message
\* with a text
HasContent(r) == r.kind = "callback" \/ (r.kind = "message" /\ trim(r.text) # <<>>)

\* the failures of a finished request: Unauthorized, ParseFailure,
\* TokenNotFound, TokenExpired, DispatchFailure
IsFailure(r) ==
    \/ ~Authorized(r)
    \/ r.parsed /\ r.looked = 0
    \/ r.looked > 0 /\ r.session = <<>>
    \/ r.looked > 0 /\ r.session # <<>> /\ r.injected = <<>>
    \/ r.injected # <<>> /\ "sent" \notin Range(r.replies)

\* C6: every finished request that failed has sent exactly one message to
\* its chat.
C6_EveryFailureOneReply ==
    \A e \in Slots :
        (ev[e].pc = "done" /\ HasContent(ev[e]) /\ IsFailure(ev[e])) =>
            Len(ev[e].replies) = 1

\* the part of C6 that the code keeps: the failures of authorized callers
C6_AuthorizedFailureOneReply ==
    \A e \in Slots :
        (ev[e].pc = "done" /\ HasContent(ev[e]) /\ IsFailure(ev[e])
           /\ Authorized(ev[e])) =>
            Len(ev[e].replies) = 1

\* C7: when _sendImpl has finished without the notification being delivered,
\* the session file it created is gone; every session file belongs to a
\* notification that is delivered or still being sent.
C7_UndeliveredSessionRemoved ==
    /\ \A n \in 1..MaxNotifs :
          (notif[n].pc = "done" /\ ~notif[n].delivered) =>
              \A f \in files : f.id # notif[n].id
    /\ \A f \in files : notif[f.id].pc = "posting" \/ notif[f.id].delivered

\* C7 happens: a _sendImpl that had created session n has failed to deliver
C7_Witness ==
    \E n \in 1..MaxNotifs :
        /\ notif[n].pc = "done"
        /\ notif[n].id = n
        /\ ~notif[n].delivered
        /\ ~notif[n].result
        /\ \A f \in files : f.id # n

\* the message of request r replies to a bot and its chat has a current session
RepliesToBot(r) ==
    /\ r.kind = "message"
    /\ r.pc # "idle"
    /\ r.replyToBot
    /\ chatCurrent[r.chatId] # <<>>
    /\ trim(r.text) # <<>>

\* the request was handed to _processCommand with the token of the current
\* session of its chat and its whole (trimmed) text as the command
TookReplyShortcut(r) ==
    /\ r.looked = 1
    /\ r.token = chatCurrent[r.chatId][1].token
    /\ r.command = trim(r.text)

\* C8 as claimed: a reply to a bot message in a chat with a current session
\* is always processed as a command for that session, whatever the text is.
C8_ReplyShortcutAlwaysWins ==
    \A e \in Slots : RepliesToBot(ev[e]) => TookReplyShortcut(ev[e])

\* C8 as amended: a reply of an authorized caller to a bot message in a chat
\* with a current session, whose trimmed text is neither /start nor /help, is
\* processed as a command for that session, also when the text has one of the
\* command formats.
C8_ReplyShortcutWins ==
    \A e \in Slots :
        (/\ RepliesToBot(ev[e])
         /\ Authorized(ev[e])
         /\ trim(ev[e].text) \notin {SlashStart, SlashHelp}) =>
            TookReplyShortcut(ev[e])

\* C8 happens: a reply that names the token of another session is processed
\* whole, for the current session of the chat
C8_Witness ==
    \E e \in Slots :
        /\ RepliesToBot(ev[e])
        /\ ev[e].text = AttachedFormat(TokA, CmdLs)
        /\ ev[e].token = TokB
        /\ ev[e].command = AttachedFormat(TokA, CmdLs)
        /\ ev[e].injected = <<[command |-> AttachedFormat(TokA, CmdLs),
                               target |-> "work"]>>

\* the request is a message of an authorized caller, outside reply mode,
\* whose trimmed text is `text`
TypedText(r, text) ==
    /\ r.kind = "message"
    /\ r.pc # "idle"
    /\ Authorized(r)
    /\ ~(r.replyToBot /\ chatCurrent[r.chatId] # <<>>)
    /\ trim(r.text) = text

\* the request is a callback query with the payload `data`, past the branch
PressedButton(r, data) ==
    /\ r.kind = "callback"
    /\ r.pc \notin {"idle", "answering"}
    /\ ~r.threw
    /\ r.text = data

\* the request has looked up the upper-case form of `token`
LookedUpUpper(r, token) ==
    /\ r.looked = 1
    /\ r.pc = "found" => r.session \in _findSessionByToken(toUpperCase(token))

\* C9: a token typed in any case, in each of the three text formats and in a
\* quickcmd payload, leads to the lookup of its upper-case form.
C9_TokensCaseInsensitive ==
    \A e \in Slots, t \in TypedTokens, c \in TypedCommands :
        /\ (\/ TypedText(ev[e], AttachedFormat(t, c))
            \/ TypedText(ev[e], SpacedFormat(t, c))
            \/ TypedText(ev[e], BareFormat(t, c))
            \/ PressedButton(ev[e], QuickcmdData(t, c))) =>
                LookedUpUpper(ev[e], t)

\* the request has a text, which is no bot command and has none of the three
\* formats
MatchesNoFormat(r) ==
    /\ trim(r.text) \notin {<<>>, SlashStart, SlashHelp}
    /\ \A t \in TypedTokens, c \in TypedCommands :
          trim(r.text) \notin
              {AttachedFormat(t, c), SpacedFormat(t, c), BareFormat(t, c)}

\* C10: "/cmdT C", "/cmd T C" and "T C" are all parsed to the token
\* uppercase(T) and the command C, and a text of no format is answered with
\* the usage hint, without a lookup.
C10_FormatsParseAlike ==
    \A e \in Slots :
        /\ \A t \in TypedTokens, c \in TypedCommands :
              (\/ TypedText(ev[e], AttachedFormat(t, c))
               \/ TypedText(ev[e], SpacedFormat(t, c))
               \/ TypedText(ev[e], BareFormat(t, c))) =>
                  /\ ev[e].token = toUpperCase(t)
                  /\ ev[e].command = c
        /\ (TypedText(ev[e], trim(ev[e].text)) /\ MatchesNoFormat(ev[e])) =>
              /\ ev[e].replies = <<"usage">>
              /\ ev[e].looked = 0

\* the part of C10 that the code keeps: tokens in upper case
C10_UpperCaseFormatsParseAlike ==
    \A e \in Slots :
        /\ \A t \in {TokA, TokB}, c \in TypedCommands :
              (\/ TypedText(ev[e], AttachedFormat(t, c))
               \/ TypedText(ev[e], SpacedFormat(t, c))
               \/ TypedText(ev[e], BareFormat(t, c))) =>
                  /\ ev[e].token = t
                  /\ ev[e].command = c
        /\ \A t \in {TokALower, TokBLower}, c \in TypedCommands :
              (\/ TypedText(ev[e], AttachedFormat(t, c))
               \/ TypedText(ev[e], SpacedFormat(t, c))) =>
                  /\ ev[e].token = toUpperCase(t)
                  /\ ev[e].command = c
        /\ \A t \in {TokALower, TokBLower}, c \in TypedCommands :
              TypedText(ev[e], BareFormat(t, c)) =>
                  /\ ev[e].replies = <<"usage">>
                  /\ ev[e].looked = 0
        /\ (TypedText(ev[e], trim(ev[e].text)) /\ MatchesNoFormat(ev[e])) =>
              /\ ev[e].replies = <<"usage">>
              /\ ev[e].looked = 0

\* the request has handed `command` to _processCommand, and if it has been
\* injected, that is what was injected
PassedOn(r, command) ==
    /\ r.looked = 1
    /\ r.command = command
    /\ \A i \in 1..Len(r.injected) : r.injected[i].command = command

\* C11: the command is the remainder after the token and its separator,
\* unchanged: commands with a colon, with inner whitespace and with a line
\* break are handed to _processCommand as they are, from each of the three
\* text formats and from a quickcmd payload.
C11_CommandIsRemainder ==
    \A e \in Slots, t \in {TokA, TokB}, c \in TypedCommands \cup {CmdLines} :
        (\/ TypedText(ev[e], AttachedFormat(t, c))
         \/ TypedText(ev[e], SpacedFormat(t, c))
         \/ TypedText(ev[e], BareFormat(t, c))
         \/ PressedButton(ev[e], QuickcmdData(t, c))) =>
            PassedOn(ev[e], c)

\* the part of C11 that the code keeps: any command in a quickcmd payload,
\* and the commands of one line in the text formats
C11_SingleLineCommandIsRemainder ==
    \A e \in Slots, t \in {TokA, TokB} :
        /\ \A c \in TypedCommands \cup {CmdLines} :
              PressedButton(ev[e], QuickcmdData(t, c)) => PassedOn(ev[e], c)
        /\ \A c \in TypedCommands :
              (\/ TypedText(ev[e], AttachedFormat(t, c))
               \/ TypedText(ev[e], SpacedFormat(t, c))
               \/ TypedText(ev[e], BareFormat(t, c))) =>
                  PassedOn(ev[e], c)
        /\ \A c \in {CmdLines} :
              (\/ TypedText(ev[e], AttachedFormat(t, c))
               \/ TypedText(ev[e], SpacedFormat(t, c))
               \/ TypedText(ev[e], BareFormat(t, c))) =>
                  /\ ev[e].replies = <<"usage">>
                  /\ ev[e].looked = 0

\* the classified failures of a finished request: those of IsFailure, and a
\* reply that could not be sent
IsClassifiedFailure(r) == IsFailure(r) \/ (r.replies # <<>> /\ ~r.online)

\* the callback query of the request had no message to read the chat id from
LacksMessage(r) == r.kind = "callback" /\ r.chatId = ""

\* C12: a request gets no response before its handler is finished and exactly
\* one when it is: 200 whenever the handler completed, which every classified
\* failure does, and 500 only when an exception left the handler.
C12_OneResponse ==
    \A e \in Slots :
        /\ ev[e].pc # "done" => ev[e].http = <<>>
        /\ ev[e].pc = "done" =>
              /\ ev[e].http \in {<<200>>, <<500>>}
              /\ ev[e].http = <<500>> <=> LacksMessage(ev[e])
              /\ (IsClassifiedFailure(ev[e]) /\ ~LacksMessage(ev[e])) =>
                     ev[e].http = <<200>>

\* C12 happens: a dispatch has failed, the failure message could not be sent
\* either, and the request was answered with 200
C12_Witness ==
    \E e \in Slots :
        /\ ev[e].pc = "done"
        /\ ev[e].injected # <<>>
        /\ ev[e].replies = <<"failed">>
        /\ ~ev[e].online
        /\ ev[e].http = <<200>>

\* C12 happens as well: an exception has left the handler and the request was
\* answered with 500
C12_WitnessError ==
    \E e \in Slots :
        /\ ev[e].pc = "done"
        /\ LacksMessage(ev[e])
        /\ ev[e].http = <<500>>

DocumentedPrefixes ==
    {PfxPersonal, PfxGroup, PfxCopy, PfxFormat, PfxQuickcmd, PfxSession}

\* the request is a callback query, with a message, whose payload starts with
\* none of the documented prefixes
HasUnknownPrefix(r) ==
    /\ r.kind = "callback"
    /\ r.pc # "idle"
    /\ ~r.threw
    /\ \A p \in DocumentedPrefixes : ~startsWith(r.text, p)

NotifiedInTmux ==
    {notif[n].token : n \in {m \in 1..MaxNotifs :
        /\ notif[m].pc = "done"
        /\ notif[m].result
        /\ \E f \in files : f.id = notif[m].id /\ f.tmuxSession # "default"}}

\* C14: once a notification from inside a tmux session has been delivered, a
\* reply of the operator to a bot message in the notified chat is processed
\* with the token of a notified session.
C14_ReplyResolvesToNotified ==
    [][\A e \in Slots :
          (/\ NotifiedInTmux # {}
           /\ ev[e].pc = "idle"
           /\ ev'[e].pc # "idle"
           /\ ev'[e].kind = "message"
           /\ ev'[e].replyToBot
           /\ ev'[e].chatId = Recipient
           /\ Authorized(ev'[e])) =>
              /\ ev'[e].looked = 1
              /\ ev'[e].token \in NotifiedInTmux
      ]_vars

\* request e has found the session of the file f
FoundFile(e, f) == ev[e].session # <<>> /\ ev[e].session[1].id = f.id

\* C15: a command whose expiry test happens less than 7 days after the
\* creation of its session is dispatched.
C15_UsableForSevenDays ==
    [][\A e \in Slots, f \in files :
          (/\ ChecksExpiry(e)
           /\ FoundFile(e, f)
           /\ nowSec < f.createdAt + ADVERTISED_TTL) =>
              ev'[e].injected # <<>>
      ]_vars

\* what the code enforces instead: a session is usable up to and including
\* the second of its expiresAt, 24 hours after its creation, and not later
C15_UsableForOneDay ==
    [][\A e \in Slots, f \in files :
          (ChecksExpiry(e) /\ FoundFile(e, f)) =>
              (ev'[e].injected # <<>> <=> nowSec <= f.createdAt + TTL_MS \div 1000)
      ]_vars

\* C16: every session file has expiresAt = createdAt + 86400.
C16_ExpiresExactlyADayLater ==
    \A f \in files : f.expiresAt = f.createdAt + TTL_MS \div 1000

\* what the two reads of the clock give when they are less than a second
\* apart: 86400 seconds, or one more
C16_ExpiresADayLaterOrASecondMore ==
    \A f \in files :
        f.expiresAt - f.createdAt \in {TTL_MS \div 1000, TTL_MS \div 1000 + 1}

\* the single configured default: the chat, else the group
DefaultId == IF config.chatId # "" THEN config.chatId ELSE config.groupId

OnAllowList(userId, chatId) ==
    userId \in config.whitelist \/ chatId \in config.whitelist

\* the request is a message with a text, past the authorization gate
PastGate(r) == r.kind = "message" /\ r.pc # "idle" /\ trim(r.text) # <<>>

IsWholeRecord(session) ==
    \E n \in 1..MaxNotifs :
        /\ notif[n].id = session.id
        /\ notif[n].token = session.token
        /\ session.tmuxSession \in (TmuxResults \ {""}) \cup {"default"}
        /\ session.expiresAt >= TTL_MS \div 1000

\* C18: whatever a lookup that races with the write of the session file
\* returns is the whole record or nothing, and the request ends with the
\* response 200.
C18_LookupSeesWholeOrNothing ==
    \A e \in Slots :
        /\ ev[e].session # <<>> => IsWholeRecord(ev[e].session[1])
        /\ \A i \in 1..Len(ev[e].injected) :
              ev[e].injected[i].target \in (TmuxResults \ {""}) \cup {"default"}
        /\ ev[e].removed # <<>> => nowSec > TTL_MS \div 1000
        /\ ~ev[e].threw
        /\ ev[e].pc = "done" => ev[e].http = <<200>>

\* C18 happens: a lookup has returned the record of a file whose write has
\* not returned yet
C18_Witness ==
    \E e \in Slots :
        /\ ev[e].session # <<>>
        /\ notif[ev[e].session[1].id].pc = "writing"

\* C18 happens as well: a lookup has skipped the file that is being written
C18_WitnessSkipped ==
    \E e \in Slots, f \in files :
        /\ ev[e].pc = "done"
        /\ ev[e].replies = <<"invalid">>
        /\ ev[e].token = f.token
        /\ Partial(f)

\* the session file has not reached its expiresAt
IsLive(f) == nowSec < f.expiresAt

\* C19: no two live session files carry the same token, so that a lookup of
\* a token has at most one session to return.
C19_LiveTokensUnique ==
    \A f \in files, g \in files :
        (f.id # g.id /\ IsLive(f) /\ IsLive(g)) =>
            toUpperCase(f.token) # toUpperCase(g.token)

\* C20: the tmuxSession of a session file is "default" iff tmux reported no
\* session to the _sendImpl that wrote it, and is the reported name otherwise.
C20_DefaultIffNoTmux ==
    \A f \in files :
        /\ f.tmuxSession = "default" <=> notif[f.id].tmux = ""
        /\ notif[f.id].tmux # "" => f.tmuxSession = notif[f.id].tmux

\* what the code does: a notification without metadata gets the reported
\* name or "default"; one that brings metadata gets the tmuxSession of its
\* metadata or "default", whatever tmux reported
C20_MetadataDecides ==
    \A f \in files :
        f.tmuxSession =
            IF notif[f.id].metadata = "none"
            THEN IF notif[f.id].tmux # "" THEN notif[f.id].tmux ELSE "default"
            ELSE IF notif[f.id].metadata = "named" THEN "meta" ELSE "default"

\* the informational message that answers each of the five payload forms
InfoReply ==
    {<<PfxPersonal, "personal">>, <<PfxGroup, "group">>, <<PfxCopy, "copy">>,
     <<PfxFormat, "format">>, <<PfxSession, "session">>}

\* the request is a callback query, with a message, past the branch on the
\* prefix, whose payload starts with `prefix`
BranchTaken(r, prefix) ==
    /\ r.kind = "callback"
    /\ r.pc \notin {"idle", "answering"}
    /\ ~r.threw
    /\ startsWith(r.text, prefix)

\* C21: a callback query personal:, group:, copy:, format: or session: sends
\* its one informational message and is done, without a lookup, a removal or
\* an injection and with the session files and stored sessions as they were;
\* a callback query quickcmd: goes through exactly one lookup.
C21_OnlyQuickcmdDispatches ==
    \A e \in Slots :
        /\ \A i \in InfoReply :
              BranchTaken(ev[e], i[1]) =>
                  /\ ev[e].pc = "done"
                  /\ ev[e].replies = <<i[2]>>
                  /\ ~ev[e].parsed
                  /\ ev[e].looked = 0
                  /\ ev[e].session = <<>>
                  /\ ev[e].removed = <<>>
                  /\ ev[e].injected = <<>>
                  /\ files = {FirstSession}
                  /\ persist = {StoredSession}
        /\ BranchTaken(ev[e], PfxQuickcmd) => ev[e].looked = 1

\* C21 happens: a session: payload has been answered with its message
C21_Witness ==
    \E e \in Slots :
        /\ BranchTaken(ev[e], PfxSession)
        /\ ev[e].pc = "done"
        /\ ev[e].replies = <<"session">>
        /\ files = {FirstSession}

\* C21 happens as well: a quickcmd: payload has been dispatched
C21_WitnessQuickcmd ==
    \E e \in Slots :
        /\ BranchTaken(ev[e], PfxQuickcmd)
        /\ ev[e].injected # <<>>

\* the request is a message from the chat the notifications are sent to,
\* under a configuration without a whitelist
FromRecipient(r) ==
    /\ PastGate(r)
    /\ config.whitelist = {}
    /\ Recipient # ""
    /\ r.chatId = Recipient

\* C22: without a whitelist, a message from the chat that receives the
\* notifications passes the authorization gate, whichever of chatId and
\* groupId are configured.
C22_RecipientAuthorized ==
    \A e \in Slots :
        FromRecipient(ev[e]) => ev[e].replies # <<"unauthorized">>

\* the part of C22 that the code keeps: configurations with only one of
\* chatId and groupId
C22_SoleRecipientAuthorized ==
    \A e \in Slots :
        (FromRecipient(ev[e]) /\ (config.chatId = "" \/ config.groupId = "")) =>
            ev[e].replies # <<"unauthorized">>

\* the session file that _sendImpl number n wrote is there
HasFile(n) == \E f \in files : f.id = n /\ f.token = notif[n].token

\* no session can have expired yet: every expiresAt is at least a day
NoneExpired == nowSec <= TTL_MS \div 1000

\* request e takes the step that looks up a token that `tokens` contains
LooksUp(e, tokens) ==
    /\ ev[e].pc \in {"idle", "answering"}
    /\ ev'[e].pc = "found"
    /\ ev'[e].token \in tokens

\* C23 as claimed: whenever the notification of _sendImpl number n has reached
\* the chat, its session file exists, unless a session may have expired.
C23_DeliveredHasSession ==
    \A n \in 1..MaxNotifs :
        (notif[n].delivered /\ NoneExpired) => HasFile(n)

\* C23 as amended: from the call of axios.post on, and after _sendImpl has
\* returned true, the session file exists unless a session may have expired,
\* and a lookup of the token of a notification that _sendImpl has sent
\* finds a session.
C23_SentHasSession ==
    [][/\ \A n \in 1..MaxNotifs :
            ((notif'[n].pc = "posting" \/ notif'[n].result) /\ NoneExpired') =>
                HasFile(n)'
       /\ \A e \in Slots :
            (/\ LooksUp(e, {notif[n].token : n \in {m \in 1..MaxNotifs :
                                notif[m].pc = "posting" \/ notif[m].result}})
             /\ NoneExpired) =>
                ev'[e].session # <<>>
      ]_vars

\* C23 happens: a command that names the token of a sent notification has
\* been dispatched within the first day
C23_Witness ==
    \E e \in Slots, n \in 1..MaxNotifs :
        /\ notif[n].result
        /\ HasFile(n)
        /\ NoneExpired
        /\ ev[e].token = notif[n].token
        /\ ev[e].session # <<>>
        /\ ev[e].session[1].id = n
        /\ ev[e].replies = <<"sent">>

====
